---- MODULE Spec2Model ----
(***************************************************************************)
(* A model of tinycal_holiday_updater.py: fetch_holiday_data, which turns  *)
(* a fetched JSON document into a date -> isOffDay mapping,                *)
(* update_single_plist_file, which backs up, loads, scans and rewrites one *)
(* PList calendar file, and main, which runs the fetch and then the update *)
(* over every calendar file of the target year.                            *)
(*                                                                         *)
(* Values read from a PList or a JSON document are records tagged with     *)
(* their type in field t, so that Python's int(), `in` and == can be       *)
(* modelled by what they do on each type.  Strings that are parsed         *)
(* (identity fields) are sequences of one-character strings; date strings  *)
(* that are only compared (mapping keys) are TLA+ strings.                 *)
(***************************************************************************)
EXTENDS Integers, Sequences, FiniteSets, TLC

\* ------------------------------------------------------------ bounds
\* The most day records a calendar file holds.
MaxRecords == 2
\* The most calls of update_single_plist_file on the one file of Spec.
MaxCalls == 2
\* The number of calendar files of the target year in SpecMain's directory.
MaxFiles == 2
\* The most entries of the 'days' list of a fetched document.
MaxEntries == 2

\* ------------------------------------------------------------ values
IntV(n) == [t |-> "integer", v |-> n]
\* A PList <real>: whole is the value truncated toward zero, tenths its
\* first decimal.
RealV(w, f) == [t |-> "real", whole |-> w, tenths |-> f]
\* A string, as the sequence of its characters.
StrV(s) == [t |-> "string", s |-> s]
\* A string that is only compared, never parsed, as a TLA+ string.
TextV(s) == [t |-> "text", s |-> s]
BoolV(b) == [t |-> "bool", b |-> b]
ArrV(items) == [t |-> "array", items |-> items]
DictV(d) == [t |-> "dict", d |-> d]
Null == [t |-> "null"]

DigitChars == <<"0", "1", "2", "3", "4", "5", "6", "7", "8", "9">>
DigitChar(d) == DigitChars[d + 1]
IsDigitChar(c) == \E d \in 0..9 : DigitChar(d) = c
DigitValue(c) == CHOOSE d \in 0..9 : DigitChar(d) = c

\* str(n) for n >= 0.
RECURSIVE Decimal(_)
Decimal(n) == IF n < 10 THEN DigitChar(n) ELSE Decimal(n \div 10) \o DigitChar(n % 10)

RECURSIVE ZeroFill(_, _)
ZeroFill(s, width) == IF Len(s) >= width THEN s ELSE ZeroFill("0" \o s, width)

\* Python's format(n, "0<width>d"): the sign counts in the width.
FormatD(n, width) ==
    IF n < 0 THEN "-" \o ZeroFill(Decimal(-n), width - 1)
    ELSE ZeroFill(Decimal(n), width)

\* f"{item_year:04d}-{item_month:02d}-{item_day:02d}"
current_date_str(item_year, item_month, item_day) ==
    FormatD(item_year, 4) \o "-" \o FormatD(item_month, 2) \o "-" \o FormatD(item_day, 2)

\* int() of a string of decimal digits.
RECURSIVE DecimalValue(_)
DecimalValue(s) ==
    IF Len(s) = 0 THEN 0
    ELSE 10 * DecimalValue(SubSeq(s, 1, Len(s) - 1)) + DigitValue(s[Len(s)])

IsDecimal(s) == Len(s) > 0 /\ \A i \in 1..Len(s) : IsDigitChar(s[i])

\* Python's int(v): the integer, or the exception it raises.  A string that
\* is not a decimal literal raises ValueError; a value that is neither a
\* number nor a string (an array, a dict, a date) raises TypeError.
PyInt(v) ==
    CASE v.t = "integer" -> [exc |-> "none", n |-> v.v]
      [] v.t = "real"    -> [exc |-> "none", n |-> v.whole]
      [] v.t = "string"  -> IF IsDecimal(v.s)
                            THEN [exc |-> "none", n |-> DecimalValue(v.s)]
                            ELSE [exc |-> "ValueError", n |-> 0]
      [] OTHER           -> [exc |-> "TypeError", n |-> 0]

\* Python's v == n for an int n.
PyEqInt(v, n) ==
    \/ v.t = "integer" /\ v.v = n
    \/ v.t = "real" /\ v.whole = n /\ v.tenths = 0

IdentityKeys == <<"year", "month", "day">>

\* ------------------------------------------------------------ the scan
\* A slip that swaps the two worktime codes.
NewWorktimeSwapped(is_off_day) == IF is_off_day THEN 1 ELSE 2

\* new_worktime = 2 if is_off_day else 1
NewWorktime(is_off_day) == IF is_off_day THEN 2 ELSE 1

\* A slip that rewrites every matching record, whatever its worktime.
WorktimeAlwaysDiffers(item, new_worktime) == TRUE

\* item.get('worktime') != new_worktime
WorktimeDiffers(item, new_worktime) ==
    ~ ("worktime" \in DOMAIN item /\ PyEqInt(item.worktime, new_worktime))

\* The body of the loop over plist_content['monthData'] for one item (a
\* dict) and the mapping m: the item as the body leaves it, whether it was
\* changed, and the exception the body lets escape ("none" when it
\* completes or continues).  The three int() calls run in the order year,
\* month, day, and the first exception decides: ValueError is caught and
\* the item skipped, any other leaves the function.
ScanItem(item, m) ==
    IF ~ \A i \in 1..3 : IdentityKeys[i] \in DOMAIN item
    THEN [item |-> item, changed |-> FALSE, exc |-> "none"]
    ELSE LET y == PyInt(item.year)
             mo == PyInt(item.month)
             d == PyInt(item.day)
             first == IF y.exc # "none" THEN y.exc
                      ELSE IF mo.exc # "none" THEN mo.exc
                      ELSE d.exc
         IN  IF first = "ValueError"
             THEN [item |-> item, changed |-> FALSE, exc |-> "none"]
             ELSE IF first # "none"
             THEN [item |-> item, changed |-> FALSE, exc |-> first]
             ELSE LET date == current_date_str(y.n, mo.n, d.n)
                  IN  IF date \in DOMAIN m
                      THEN LET new_worktime == NewWorktime(m[date])
                           IN  IF ~ WorktimeDiffers(item, new_worktime)
                               THEN [item |-> item, changed |-> FALSE, exc |-> "none"]
                               ELSE [item |-> [k \in DOMAIN item \cup {"worktime"} |->
                                                 IF k = "worktime" THEN IntV(new_worktime)
                                                 ELSE item[k]],
                                     changed |-> TRUE, exc |-> "none"]
                      ELSE [item |-> item, changed |-> FALSE, exc |-> "none"]

\* The whole loop: the items after it, updated_entries_count, and the
\* exception that ended it early ("none" when it ran to the end).
RECURSIVE ScanFrom(_, _, _, _)
ScanFrom(items, m, i, count) ==
    IF i > Len(items) THEN [items |-> items, count |-> count, exc |-> "none"]
    ELSE LET r == ScanItem(items[i], m)
         IN  IF r.exc # "none" THEN [items |-> items, count |-> count, exc |-> r.exc]
             ELSE ScanFrom([items EXCEPT ![i] = r.item], m, i + 1,
                           IF r.changed THEN count + 1 ELSE count)

Scan(items, m) == ScanFrom(items, m, 1, 0)

\* ------------------------------------------------------------ the fetch
\* What fetch_holiday_data returns: None, or the schedule_map dict.
NoneV == [t |-> "none"]
MapV(m) == [t |-> "map", m |-> m]

\* The body of the loop over holiday_data['days'] for one entry: the
\* schedule_map after it and the exception it raises ("none" when the
\* entry is stored or skipped with a warning).  `'date' in day_info` on a
\* number, a boolean or null raises TypeError.
FetchEntry(day_info, schedule_map) ==
    IF day_info.t # "dict" THEN [map |-> schedule_map, exc |-> "TypeError"]
    ELSE IF "date" \in DOMAIN day_info.d /\ "isOffDay" \in DOMAIN day_info.d
    THEN [map |-> [k \in DOMAIN schedule_map \cup {day_info.d.date.s} |->
                     IF k = day_info.d.date.s THEN day_info.d.isOffDay.b
                     ELSE schedule_map[k]],
          exc |-> "none"]
    ELSE [map |-> schedule_map, exc |-> "none"]

RECURSIVE FetchFrom(_, _, _)
FetchFrom(days, i, schedule_map) ==
    IF i > Len(days) THEN [map |-> schedule_map, exc |-> "none"]
    ELSE LET r == FetchEntry(days[i], schedule_map)
         IN  IF r.exc # "none" THEN r ELSE FetchFrom(days, i + 1, r.map)

\* The value of a fetch whose loop raised: every except clause of
\* fetch_holiday_data returns None.
FetchErrorReturn == NoneV

\* fetch_holiday_data(year), given what the HTTP request brought: a status
\* other than "ok" stands for the exception of requests.get,
\* raise_for_status or response.json(), and json is the decoded document.
fetch_holiday_data(response) ==
    IF response.status # "ok" THEN NoneV
    ELSE LET holiday_data == response.json
         IN  IF holiday_data.t \notin {"dict", "array"} THEN FetchErrorReturn
             ELSE IF holiday_data.t = "dict" /\ "days" \in DOMAIN holiday_data.d
                     /\ holiday_data.d.days.t = "array"
             THEN LET r == FetchFrom(holiday_data.d.days.items, 1, << >>)
                  IN  IF r.exc # "none" THEN FetchErrorReturn
                      ELSE IF DOMAIN r.map = {} THEN NoneV
                      ELSE MapV(r.map)
             ELSE NoneV

\* ------------------------------------------------------------ files
\* What a path of the calendar directory holds: nothing, bytes that are no
\* PList, the bytes an interrupted dump left behind, or a PList with its
\* root value.
Missing == [kind |-> "missing"]
Malformed == [kind |-> "malformed"]
Truncated == [kind |-> "truncated"]
Plist(root) == [kind |-> "plist", root |-> root]

\* The value of update_single_plist_file: the returned tuple, or the
\* exception that escapes it.
Return(modified, succeeded) ==
    [kind |-> "return", modified |-> modified, succeeded |-> succeeded]
Raise(exc) == [kind |-> "raise", exc |-> exc]
NoCall == [kind |-> "none"]

\* 'monthData' not in plist_content or not isinstance(plist_content['monthData'], list),
\* for a dict or list root that holds no string equal to 'monthData'.
LacksMonthData(root) ==
    \/ root.t = "array"
    \/ root.t = "dict" /\ "monthData" \notin DOMAIN root.d
    \/ root.t = "dict" /\ "monthData" \in DOMAIN root.d /\ root.d.monthData.t # "array"

\* Whether `'monthData' in plist_content` is defined: a scalar root (an
\* integer, a real, a date) is no container and the test raises TypeError.
IsContainer(root) == root.t \in {"dict", "array"}

\* The policy the commented-out return would give: a failed backup ends the
\* update.
AbortAfterBackupError == FALSE

\* The except clause of the backup block: TRUE when the update goes on
\* after a failed backup (the return there is commented out).
ContinueAfterBackupError == TRUE

\* A save block without its except clause: the error escapes.
SaveErrorEscapes == Raise("OSError")

\* The except clause of the save block.
SaveErrorReturn == Return(TRUE, FALSE)

\* The backup block.  bk is what the file system does: "ok", "makedirs_error"
\* (os.makedirs raises; only when the directory is absent) or "copy_error"
\* (shutil.copy2 raises).  The store after it, keyed by file name, and
\* whether the function has returned (False, False) from inside the block.
Backup(name, file, store, bk) ==
    IF ~ store.exists /\ bk = "makedirs_error"
    THEN [store |-> store, returned |-> ~ ContinueAfterBackupError]
    ELSE LET made == [store EXCEPT !.exists = TRUE]
         IN  IF file.kind = "missing" THEN [store |-> made, returned |-> TRUE]
             ELSE IF bk = "copy_error"
             THEN [store |-> made, returned |-> ~ ContinueAfterBackupError]
             ELSE [store |-> [made EXCEPT !.copies =
                                [n \in DOMAIN made.copies \cup {name} |->
                                   IF n = name THEN file ELSE made.copies[n]]],
                   returned |-> FALSE]

\* The save block.  wr is what the file system does: "ok", "open_error"
\* (open(path, 'wb') raises, the file is as it was) or "dump_error" (the
\* file was opened, which truncates it, and the dump raised part-way).
\* A completed dump holds the container as plistlib.load gives it back:
\* the integers, reals, strings and arrays of the records modelled here
\* are written and read without change.
Save(file, content, wr) ==
    CASE wr = "ok"         -> [file |-> Plist(content), ret |-> Return(TRUE, TRUE)]
      [] wr = "open_error" -> [file |-> file, ret |-> SaveErrorReturn]
      [] wr = "dump_error" -> [file |-> Truncated, ret |-> SaveErrorReturn]

\* update_single_plist_file(plist_file_path, year_schedule_map) on the file
\* `file` named `name`, with the backup store `store`: the file and the
\* store after the call, the call's value, and whether it reached
\* open(plist_file_path, 'wb').
update_single_plist_file(name, file, store, m, bk, wr) ==
    LET b == Backup(name, file, store, bk)
        same(ret) == [file |-> file, store |-> b.store, ret |-> ret, opened |-> FALSE]
    IN  IF b.returned THEN same(Return(FALSE, FALSE))
        ELSE IF file.kind # "plist" THEN same(Return(FALSE, FALSE))
        ELSE IF ~ IsContainer(file.root) THEN same(Raise("TypeError"))
        ELSE IF LacksMonthData(file.root) THEN same(Return(FALSE, FALSE))
        ELSE LET sc == Scan(file.root.d.monthData.items, m)
                 modified_in_this_file == sc.count > 0
                 content == DictV([file.root.d EXCEPT !.monthData = ArrV(sc.items)])
             IN  IF sc.exc # "none" THEN same(Raise(sc.exc))
                 ELSE IF modified_in_this_file
                 THEN LET s == Save(file, content, wr)
                      IN  [file |-> s.file, store |-> b.store, ret |-> s.ret,
                           opened |-> TRUE]
                 ELSE same(Return(FALSE, TRUE))

\* ------------------------------------------------------------ state
VARIABLES
    files,                  \* the calendar directory: file name -> what it holds
    store,                  \* BACKUP_DIR: whether it exists, and its copies
    year_schedule_map,      \* the date -> isOffDay mapping in use
    ret,                    \* the value of the last update_single_plist_file
    prev_ret,               \* the value of the call before it
    before,                 \* `files` as the last call found it
    last,                   \* the last call: file name, backup and save outcome
    opened,                 \* whether the last call reached open(path, 'wb')
    ncalls,                 \* calls of update_single_plist_file so far
    pc,                     \* where main (or the driver of the calls) stands
    listing,                \* names of os.listdir(CALENDAR_DIR) not yet visited
    target_year,
    total_files_processed,
    files_actually_updated,
    files_failed_to_update,
    passed,                 \* file name -> the values of the updates it was passed to
    holiday_data,           \* the outcome of the HTTP request of the fetch
    fetched,                \* the value of fetch_holiday_data
    calendar_dir            \* whether os.path.isdir(CALENDAR_DIR)

vars == <<files, store, year_schedule_map, ret, prev_ret, before, last, opened, ncalls, pc,
          listing, target_year, total_files_processed, files_actually_updated,
          files_failed_to_update, passed, holiday_data, fetched, calendar_dir>>

\* What a call of update_single_plist_file writes.
callVars == <<files, store, ret, prev_ret, before, last, opened, ncalls, passed>>
\* main's counters.
countVars == <<total_files_processed, files_actually_updated, files_failed_to_update>>

\* ------------------------------------------------------------ inputs
\* A directory entry: the year and month its name encodes, and whether the
\* name is of the form "<4 digits>.<1-2 digits>.0 (zh_CN)".
FileName(y, mo, pattern) == [year |-> y, month |-> mo, pattern |-> pattern]

WithWorktime(item, w) ==
    [k \in DOMAIN item \cup {"worktime"} |-> IF k = "worktime" THEN w ELSE item[k]]
Without(item, key) == [k \in DOMAIN item \ {key} |-> item[k]]
Day(d) == [year |-> IntV(2025), month |-> IntV(1), day |-> IntV(d)]

\* Well-formed day records of January 2025: the 1st with worktime 1, 2 or
\* none, the 2nd with worktime 1.
PlainRecords ==
    {Day(1), WithWorktime(Day(1), IntV(1)), WithWorktime(Day(1), IntV(2)),
     WithWorktime(Day(2), IntV(1))}

\* Records of 2025-01-01 with worktime 1 and one identity field missing or
\* not a PList integer: a string of digits, a string of letters, an array.
OddRecords ==
    {WithWorktime(r, IntV(1)) : r \in
        {Without(Day(1), "day"),
         [Day(1) EXCEPT !.year = StrV(<<"2", "0", "2", "5">>)],
         [Day(1) EXCEPT !.month = StrV(<<"x">>)],
         [Day(1) EXCEPT !.day = ArrV(<< >>)]}}

DayRecords == PlainRecords \cup OddRecords

RECURSIVE SeqsUpTo(_, _)
SeqsUpTo(S, n) ==
    IF n = 0 THEN {<< >>}
    ELSE LET shorter == SeqsUpTo(S, n - 1)
         IN  shorter \cup {Append(q, x) : q \in shorter, x \in S}

MonthFile(items) == Plist(DictV([monthData |-> ArrV(items)]))

FileStates ==
    {Missing, Malformed,
     Plist(DictV([version |-> IntV(1)])),
     Plist(DictV([monthData |-> StrV(<<"x">>)])),
     Plist(ArrV(<< >>)),
     Plist(IntV(5))}
    \cup {MonthFile(items) : items \in SeqsUpTo(DayRecords, MaxRecords)}

\* Mappings over two zero-padded keys and one key that is not zero-padded.
ScheduleMaps ==
    UNION {[K -> BOOLEAN] : K \in SUBSET {"2025-01-01", "2025-01-02"}}
    \cup {[k \in {"2025-1-2"} |-> TRUE]}

Path == FileName(2025, 1, TRUE)

\* ------------------------------------------------------------ Spec
\* update_single_plist_file called up to MaxCalls times on one path with
\* one mapping.
Init ==
    /\ files \in [{Path} -> FileStates]
    /\ store = [exists |-> FALSE, copies |-> << >>]
    /\ year_schedule_map \in ScheduleMaps
    /\ ret = NoCall
    /\ prev_ret = NoCall
    /\ before = files
    /\ last = [name |-> Path, bk |-> "none", wr |-> "none"]
    /\ opened = FALSE
    /\ ncalls = 0
    /\ pc = "calls"
    /\ listing = {}
    /\ target_year = 2025
    /\ total_files_processed = 0
    /\ files_actually_updated = 0
    /\ files_failed_to_update = 0
    /\ passed = [n \in {Path} |-> << >>]
    /\ holiday_data = [status |-> "none"]
    /\ fetched = NoneV
    /\ calendar_dir = TRUE

BackupOutcomes(st) ==
    {"ok", "copy_error"} \cup (IF st.exists THEN {} ELSE {"makedirs_error"})
SaveOutcomes == {"ok", "open_error", "dump_error"}

\* One call of update_single_plist_file(name, year_schedule_map).
UpdateEffect(name, bk, wr) ==
    \E r \in {update_single_plist_file(name, files[name], store, year_schedule_map, bk, wr)} :
        /\ files' = [files EXCEPT ![name] = r.file]
        /\ store' = r.store
        /\ ret' = r.ret
        /\ prev_ret' = ret
        /\ opened' = r.opened
        /\ before' = files
        /\ last' = [name |-> name, bk |-> bk, wr |-> IF r.opened THEN wr ELSE "none"]
        /\ ncalls' = ncalls + 1
        /\ passed' = [passed EXCEPT ![name] = Append(@, r.ret)]

Call ==
    /\ pc = "calls"
    /\ ncalls < MaxCalls
    /\ ret.kind # "raise"
    /\ \E bk \in BackupOutcomes(store), wr \in SaveOutcomes : UpdateEffect(Path, bk, wr)
    /\ UNCHANGED <<year_schedule_map, pc, listing, target_year, countVars,
                   holiday_data, fetched, calendar_dir>>

Next == Call

Spec == Init /\ [][Next]_vars

\* ------------------------------------------------------------ SpecFetch
\* Entries of a 'days' list: complete ones (two for the same date), ones
\* without the date or without the flag, and a null.
Entry(date, flag) ==
    DictV([name |-> TextV("n"), date |-> TextV(date), isOffDay |-> BoolV(flag)])
DayEntries ==
    {Entry("2025-01-01", TRUE), Entry("2025-01-01", FALSE),
     Entry("2025-01-02", TRUE), Entry("2025-01-02", FALSE),
     DictV([name |-> TextV("n"), date |-> TextV("2025-01-02")]),
     DictV([name |-> TextV("n"), isOffDay |-> BoolV(TRUE)]),
     Null}

Document(days) == [status |-> "ok", json |-> DictV([year |-> IntV(2025), days |-> days])]

\* What the request can bring: a failure, or a decoded document.
Responses ==
    {[status |-> st] : st \in {"404", "http_error", "request_error", "json_error"}}
    \cup {[status |-> "ok", json |-> j] : j \in
            {DictV([year |-> IntV(2025)]), ArrV(<< >>), IntV(5)}}
    \cup {Document(TextV("x"))}
    \cup {Document(ArrV(days)) : days \in SeqsUpTo(DayEntries, MaxEntries)}

\* The variables main and the update own, at rest.
Idle ==
    /\ files = << >>
    /\ store = [exists |-> FALSE, copies |-> << >>]
    /\ year_schedule_map = << >>
    /\ ret = NoCall
    /\ prev_ret = NoCall
    /\ before = files
    /\ last = [name |-> Path, bk |-> "none", wr |-> "none"]
    /\ opened = FALSE
    /\ ncalls = 0
    /\ listing = {}
    /\ target_year = 0
    /\ total_files_processed = 0
    /\ files_actually_updated = 0
    /\ files_failed_to_update = 0
    /\ passed = << >>
    /\ calendar_dir = TRUE

InitFetch ==
    /\ Idle
    /\ holiday_data \in Responses
    /\ fetched = NoneV
    /\ pc = "fetch"

\* year_schedule_map = fetch_holiday_data(target_year)
Fetch ==
    /\ pc = "fetch"
    /\ fetched' = fetch_holiday_data(holiday_data)
    /\ pc' = "fetched"
    /\ UNCHANGED <<callVars, countVars, year_schedule_map, listing, target_year,
                   holiday_data, calendar_dir>>

NextFetch == Fetch

SpecFetch == InitFetch /\ [][NextFetch]_vars

\* ------------------------------------------------------------ SpecMain
\* The calendar files of the target year: months 1..MaxFiles of 2025.
YearFiles == {FileName(2025, mo, TRUE) : mo \in 1..MaxFiles}
\* A calendar file of another year and a file of another name.
OtherFiles == {FileName(2024, 12, TRUE), FileName(2025, 1, FALSE)}

\* What a calendar file of the target year holds: bytes that do not load, a
\* scalar root, a record to rewrite, a record to leave, a record whose day
\* is an array.
MainFileStates ==
    {Malformed, Plist(IntV(5)),
     MonthFile(<<WithWorktime(Day(1), IntV(1))>>),
     MonthFile(<<WithWorktime(Day(2), IntV(1))>>),
     MonthFile(<<WithWorktime([Day(1) EXCEPT !.day = ArrV(<< >>)], IntV(1))>>)}

MainResponses ==
    {[status |-> "404"],
     Document(ArrV(<<Entry("2025-01-01", TRUE)>>)),
     Document(ArrV(<<Entry("2025-01-01", TRUE), Entry("2025-01-02", FALSE)>>))}

\* The years the clock or the user can give; 1800 fails the range check.
InputYears == {1800, 2024, 2025}
\* 1800 < target_year < 2200
ValidYear(y) == 1800 < y /\ y < 2200

InitMain ==
    /\ \E f \in [YearFiles -> MainFileStates] :
          files = [n \in YearFiles \cup OtherFiles |->
                     IF n \in YearFiles THEN f[n]
                     ELSE MonthFile(<<WithWorktime(Day(1), IntV(1))>>)]
    /\ store = [exists |-> FALSE, copies |-> << >>]
    /\ year_schedule_map = << >>
    /\ ret = NoCall
    /\ prev_ret = NoCall
    /\ before = files
    /\ last = [name |-> Path, bk |-> "none", wr |-> "none"]
    /\ opened = FALSE
    /\ ncalls = 0
    /\ pc = "start"
    /\ listing = {}
    /\ target_year = 0
    /\ total_files_processed = 0
    /\ files_actually_updated = 0
    /\ files_failed_to_update = 0
    /\ passed = [n \in DOMAIN files |-> << >>]
    /\ holiday_data \in MainResponses
    /\ fetched = NoneV
    /\ calendar_dir \in BOOLEAN

\* choice = input(...): '1' takes the clock's year, '2' asks for one, any
\* other answer ends the script.
MainChoose ==
    /\ pc = "start"
    /\ \/ \E y \in InputYears \ {1800} : target_year' = y /\ pc' = "fetch"
       \/ target_year' = target_year /\ pc' = "input_year"
       \/ target_year' = target_year /\ pc' = "exit"
    /\ UNCHANGED <<callVars, countVars, year_schedule_map, listing, holiday_data,
                   fetched, calendar_dir>>

\* One round of the while True loop that reads the year.
MainInputYear ==
    /\ pc = "input_year"
    /\ \E y \in InputYears :
          IF ValidYear(y) THEN target_year' = y /\ pc' = "fetch"
          ELSE target_year' = y /\ pc' = "input_year"
    /\ UNCHANGED <<callVars, countVars, year_schedule_map, listing, holiday_data,
                   fetched, calendar_dir>>

\* year_schedule_map = fetch_holiday_data(target_year), and the return when
\* it is None.
MainFetch ==
    /\ pc = "fetch"
    /\ fetched' = fetch_holiday_data(holiday_data)
    /\ IF fetched'.t = "none"
       THEN pc' = "exit" /\ UNCHANGED year_schedule_map
       ELSE pc' = "check_dir" /\ year_schedule_map' = fetched'.m
    /\ UNCHANGED <<callVars, countVars, listing, target_year, holiday_data,
                   calendar_dir>>

\* os.path.isdir(CALENDAR_DIR), the counters set to zero, os.listdir.
MainListDir ==
    /\ pc = "check_dir"
    /\ IF calendar_dir THEN pc' = "loop" /\ listing' = DOMAIN files
       ELSE pc' = "exit" /\ UNCHANGED listing
    /\ UNCHANGED <<callVars, countVars, year_schedule_map, target_year, holiday_data,
                   fetched, calendar_dir>>

\* One round of the loop over os.listdir(CALENDAR_DIR), which lists in any
\* order.  An exception of the update other than ValueError leaves main.
MainVisit ==
    /\ pc = "loop"
    /\ \E filename \in listing :
          /\ listing' = listing \ {filename}
          /\ IF filename.pattern /\ filename.year = target_year
             THEN /\ total_files_processed' = total_files_processed + 1
                  /\ \E bk \in BackupOutcomes(store), wr \in SaveOutcomes :
                        UpdateEffect(filename, bk, wr)
                  /\ files_actually_updated' =
                        IF ret'.kind = "return" /\ ret'.modified /\ ret'.succeeded
                        THEN files_actually_updated + 1 ELSE files_actually_updated
                  /\ files_failed_to_update' =
                        IF ret'.kind = "return" /\ ~ (ret'.modified /\ ret'.succeeded)
                           /\ ~ ret'.succeeded
                        THEN files_failed_to_update + 1 ELSE files_failed_to_update
                  /\ pc' = IF ret'.kind = "raise" THEN "crashed" ELSE "loop"
             ELSE UNCHANGED <<callVars, countVars, pc>>
    /\ UNCHANGED <<year_schedule_map, target_year, holiday_data, fetched, calendar_dir>>

\* The loop is over: the summary is printed.
MainSummary ==
    /\ pc = "loop"
    /\ listing = {}
    /\ pc' = "done"
    /\ UNCHANGED <<callVars, countVars, year_schedule_map, listing, target_year,
                   holiday_data, fetched, calendar_dir>>

NextMain ==
    \/ MainChoose
    \/ MainInputYear
    \/ MainFetch
    \/ MainListDir
    \/ MainVisit
    \/ MainSummary

SpecMain == InitMain /\ [][NextMain]_vars

\* ------------------------------------------------------------ claims on Spec
\* Pre and Post are the file of the last call before and after it.  The
\* definitions HasIntegerIdentity, SameWorktime and NeedsChange state the
\* claims' own terms and are not taken from the code.
Pre == before[last.name]
Post == files[last.name]

\* The file loads and holds a list-valued monthData.
HoldsMonthData(f) ==
    /\ f.kind = "plist"
    /\ f.root.t = "dict"
    /\ "monthData" \in DOMAIN f.root.d
    /\ f.root.d.monthData.t = "array"
Items(f) == f.root.d.monthData.items

HasIdentity(item) == \A i \in 1..3 : IdentityKeys[i] \in DOMAIN item
\* The record has its three identity fields and each is a PList integer.
HasIntegerIdentity(item) ==
    HasIdentity(item) /\ \A i \in 1..3 : item[IdentityKeys[i]].t = "integer"
\* The record has its three identity fields and int() accepts each.
HasDate(item) ==
    HasIdentity(item) /\ \A i \in 1..3 : PyInt(item[IdentityKeys[i]]).exc = "none"
DateOf(item) ==
    current_date_str(PyInt(item.year).n, PyInt(item.month).n, PyInt(item.day).n)
SameWorktime(a, b) ==
    /\ ("worktime" \in DOMAIN a) = ("worktime" \in DOMAIN b)
    /\ "worktime" \in DOMAIN a => a.worktime = b.worktime

\* C1: after a call that returned succeeded=true, every day record of the
\* file whose zero-padded date is a key of the mapping has worktime 2 when
\* the mapped flag is true and 1 when it is false, and every other record
\* has the worktime (or the absence of one) it had before the call.
C1_WorktimeFollowsMapping ==
    (ret.kind = "return" /\ ret.succeeded) =>
        /\ HoldsMonthData(Pre) /\ HoldsMonthData(Post)
        /\ Len(Items(Post)) = Len(Items(Pre))
        /\ \A i \in 1..Len(Items(Pre)) :
              LET a == Items(Pre)[i]
                  b == Items(Post)[i]
              IN  IF HasDate(a) /\ DateOf(a) \in DOMAIN year_schedule_map
                  THEN /\ "worktime" \in DOMAIN b
                       /\ b.worktime = IntV(IF year_schedule_map[DateOf(a)] THEN 2 ELSE 1)
                  ELSE SameWorktime(a, b)

\* C1's case: a successful call rewrote one record and left alone another
\* whose date the mapping does not hold.
C1_Witness ==
    /\ ret = Return(TRUE, TRUE)
    /\ \E i, j \in 1..Len(Items(Pre)) :
          /\ Items(Post)[i] # Items(Pre)[i]
          /\ HasDate(Items(Pre)[j])
          /\ DateOf(Items(Pre)[j]) \notin DOMAIN year_schedule_map

\* C2: when a call returned succeeded=true, the next call on the same file
\* with the same mapping returns (modified=false, succeeded=true) and
\* leaves the file as the first call left it.
C2_SecondCallChangesNothing ==
    (ncalls >= 2 /\ prev_ret.kind = "return" /\ prev_ret.succeeded) =>
        /\ ret = Return(FALSE, TRUE)
        /\ Post = Pre

\* C2's case: the first call rewrote the file and the second found nothing
\* to change.
C2_Witness ==
    /\ ncalls = 2
    /\ prev_ret = Return(TRUE, TRUE)
    /\ ret = Return(FALSE, TRUE)

\* C3: after a call, save failures included, the file holds its complete
\* original content or the complete patched container.
C3_NoPartialFile ==
    ret.kind # "none" =>
        \/ Post = Pre
        \/ /\ HoldsMonthData(Pre) /\ HoldsMonthData(Post)
           /\ Len(Items(Post)) = Len(Items(Pre))

\* The file loads and the scan ends without an exception and with at least
\* one record changed.
ScanChanges(f) ==
    /\ HoldsMonthData(f)
    /\ Scan(Items(f), year_schedule_map).exc = "none"
    /\ Scan(Items(f), year_schedule_map).count > 0

\* C4: when the file loads and scans and a record changes, a failed write
\* makes the call return (true, false) rather than raise, and a successful
\* one makes it return (true, true) with the whole container in the file.
C4_SaveOutcomeIsReturned ==
    (ret.kind # "none" /\ ScanChanges(Pre)) =>
        /\ opened
        /\ last.wr \in {"open_error", "dump_error"} => ret = Return(TRUE, FALSE)
        /\ last.wr = "ok" =>
              /\ ret = Return(TRUE, TRUE)
              /\ HoldsMonthData(Post)
              /\ Len(Items(Post)) = Len(Items(Pre))
              /\ Post # Pre

\* C4's case: the dump failed after a record had changed.
C4_Witness ==
    /\ ScanChanges(Pre)
    /\ last.wr = "dump_error"
    /\ ret = Return(TRUE, FALSE)

\* A record needs a status change: it has integer identity fields, its
\* date is a key of the mapping, and its worktime is not the mapped one.
NeedsChange(item) ==
    /\ HasIntegerIdentity(item)
    /\ DateOf(item) \in DOMAIN year_schedule_map
    /\ ~ ("worktime" \in DOMAIN item
          /\ item.worktime = IntV(IF year_schedule_map[DateOf(item)] THEN 2 ELSE 1))

\* C5: when the file loads and no day record needs a status change, the
\* call does not open the file for writing, leaves it as it was and returns
\* (false, true).
C5_UnchangedFileUntouched ==
    (/\ ret.kind # "none"
     /\ HoldsMonthData(Pre)
     /\ \A i \in 1..Len(Items(Pre)) : ~ NeedsChange(Items(Pre)[i])) =>
        /\ ~ opened
        /\ Post = Pre
        /\ ret = Return(FALSE, TRUE)

\* What the last call would have given had its backup succeeded, with the
\* save outcome the call met (if it met one).
WithBackup ==
    update_single_plist_file(last.name, Pre, [exists |-> TRUE, copies |-> << >>],
                             year_schedule_map, "ok",
                             IF last.wr = "none" THEN "ok" ELSE last.wr)

\* C7: a call whose backup failed gives the value and leaves the file that
\* it would have with the backup made.
C7_BackupFailureChangesNothing ==
    last.bk \in {"copy_error", "makedirs_error"} =>
        /\ ret = WithBackup.ret
        /\ Post = WithBackup.file

\* C7's case: the copy failed and the file was rewritten all the same, with
\* no copy of it in the store.
C7_Witness ==
    /\ last.bk = "copy_error"
    /\ ret = Return(TRUE, TRUE)
    /\ Post # Pre
    /\ last.name \notin DOMAIN store.copies

\* C8: for a file that is missing, malformed or without a list-valued
\* monthData, the call returns (false, false) without raising and leaves
\* the file as it was.
C8_UnloadableFileFails ==
    (ret.kind # "none" /\ ~ HoldsMonthData(Pre)) =>
        /\ ret = Return(FALSE, FALSE)
        /\ Post = Pre

\* C9: a day record that lacks an identity field, or has one that is not an
\* integer, is skipped: the call raises nothing and leaves the record as it
\* was.
C9_OddRecordsSkipped ==
    (ret.kind # "none" /\ HoldsMonthData(Pre)) =>
        \A i \in 1..Len(Items(Pre)) :
            ~ HasIntegerIdentity(Items(Pre)[i]) =>
                /\ ret.kind = "return"
                /\ HoldsMonthData(Post) => Items(Post)[i] = Items(Pre)[i]

\* ------------------------------------------------------------ claims on SpecFetch
\* An entry that has the date and the off-day flag.
Usable(day_info) ==
    /\ day_info.t = "dict"
    /\ "date" \in DOMAIN day_info.d
    /\ "isOffDay" \in DOMAIN day_info.d

\* The mapping of exactly the usable entries of days[1..n], a later entry
\* overriding an earlier one.
RECURSIVE MapOfUsable(_, _)
MapOfUsable(days, n) ==
    IF n = 0 THEN << >>
    ELSE LET m == MapOfUsable(days, n - 1)
             e == days[n]
         IN  IF Usable(e)
             THEN [k \in DOMAIN m \cup {e.d.date.s} |->
                     IF k = e.d.date.s THEN e.d.isOffDay.b ELSE m[k]]
             ELSE m

HasDaysList(doc) ==
    doc.t = "dict" /\ "days" \in DOMAIN doc.d /\ doc.d.days.t = "array"

\* C10: for a fetched document with a list of day entries, the fetch skips
\* the entries without the date or the flag and returns the mapping of
\* exactly the others; it returns failure exactly when the list is missing
\* or no entry is usable.
C10_FetchKeepsUsableEntries ==
    (pc = "fetched" /\ holiday_data.status = "ok") =>
        IF HasDaysList(holiday_data.json)
        THEN LET days == holiday_data.json.d.days.items
                 m == MapOfUsable(days, Len(days))
             IN  IF DOMAIN m = {} THEN fetched = NoneV ELSE fetched = MapV(m)
        ELSE fetched = NoneV

\* ------------------------------------------------------------ claims on SpecMain
Matching == {n \in DOMAIN files : n.pattern /\ n.year = target_year}
Returned(modified, succeeded) ==
    {n \in Matching : Len(passed[n]) = 1 /\ passed[n][1] = Return(modified, succeeded)}

\* C6: when main has ended after starting its loop, every calendar file of
\* the target year was passed to the update exactly once, whatever became
\* of the files before it; the failure count is the number of calls that
\* returned succeeded=false; and the files examined are the updated, the
\* failed and the unchanged ones.
C6_FailuresAreIsolated ==
    (pc \in {"done", "crashed"}) =>
        /\ \A n \in Matching : Len(passed[n]) = 1
        /\ files_failed_to_update =
              Cardinality(Returned(TRUE, FALSE) \cup Returned(FALSE, FALSE))
        /\ total_files_processed =
              files_actually_updated + files_failed_to_update
              + Cardinality(Returned(FALSE, TRUE))

====
